---- MODULE Spec2Model ----
(***************************************************************************)
(* timeshift (HTTP branch): the chunked disk-backed buffer queue           *)
(* (struct storage_t / struct thread_t and the *_storage functions), the   *)
(* select() pump do_timeshift, the pump under signal delivery, and the     *)
(* accept loop of main with its SIGCHLD handler, of src/timeshift.c.       *)
(*                                                                         *)
(* Specifications: SpecStore (a caller of the Chunk Store), Spec (the      *)
(* pump of one worker), SpecSignal (the pump with signals delivered to the *)
(* worker), SpecSuper (the parent process).                                *)
(*                                                                         *)
(* Bytes are modelled by their position in the stream they come from (the  *)
(* k-th byte read from a descriptor has the value k): the program never    *)
(* inspects a byte, so distinct values expose every loss, duplication and  *)
(* reordering.                                                             *)
(*                                                                         *)
(* System calls on the backing files: write() may store fewer bytes than   *)
(* asked (at least one), fail with ENOSPC or fail with another error       *)
(* (EIO); read() on the regular backing file returns the bytes between the *)
(* file position and the end of file, up to the count asked.  malloc,      *)
(* mkstemp, open, lseek and select are taken to succeed (their failure     *)
(* aborts the process exactly as the EIO path does).                       *)
(***************************************************************************)
EXTENDS Integers, Sequences, FiniteSets, TLC

\* ---------------------------------------------------------------- bounds
\* chunk capacities explored: chunksize \in 1..MaxChunk
MaxChunk == 4
\* bytes the caller of write_storage appends in all (the API harness)
MaxInput == 8
\* the transfer unit, char buffer[4096] of do_timeshift, scaled down
XferUnit == 3
\* connections the listening socket receives in all (the parent process)
MaxConn == 3
\* how many write_storage calls of one run may hit ENOSPC
MaxDiscards == 1
\* bytes the producer delivers on fdin in all (the pump)
MaxStream == 5
\* bytes the consumer side (fdout) sends in the reverse direction in all
MaxRev == 3

\* ------------------------------------------------------------- the state
VARIABLES
    chunksize,     \* int chunksize (line 39, set once by -s)
    storage,       \* th->storage: the linked list, head first
    last_storage,  \* th->last_storage: name of the chunk pointed to, or NULL
    files,         \* names of the backing files present in the cache directory
    made,          \* number of mkstemp() calls so far (the next unique name)
    pc,            \* position of the process in do_timeshift / the API harness
    in,            \* int in   (do_timeshift)
    data,          \* int data (do_timeshift); result of the last data_available
    rd,            \* fd_set rd
    wr,            \* fd_set wr
    appended,      \* bytes handed to write_storage so far (= read from fdin)
    discards,      \* number of write_storage calls so far that hit ENOSPC
    sink,          \* bytes accepted so far by write(fdout)
    rev,           \* number of bytes read so far from fdout (reverse direction)
    fwd,           \* bytes accepted so far by write(fdin) (reverse direction)
    why,           \* the path by which do_timeshift reached its exit label
    lastw,         \* outcome of the write_storage call of this iteration
    call,          \* the last storage call (API harness) or the last sendall or
                   \* output write of this iteration (pump), with its argument
                   \* (for sendall: the number of write() calls) and result
    peeked,        \* API harness: bytes of the last peek not yet advanced over
    consumed,      \* API harness: bytes peeked and then advanced over
    mpc,           \* position of the parent process in the loop of main
    cl,            \* int cl (main): the descriptor accept returned last
    fds,           \* accepted descriptors open in the parent process
    accepted,      \* number of connections accepted so far
    children,      \* the workers forked so far, by pid: the descriptor each
                   \* serves and its state (running, zombie, reaped)
    pending,       \* SIGCHLD is pending for the parent process
    hpc,           \* position of the parent in its handler sigchld, or "idle"
    runs           \* number of times the handler sigchld was entered

\* the state of the parent process (the accept loop of main and sigchld)
supvars == <<mpc, cl, fds, accepted, children, pending, hpc, runs>>

vars == <<chunksize, storage, last_storage, files, made, pc, in, data, rd, wr,
          appended, discards, sink, rev, fwd, why, lastw, call, peeked,
          consumed, mpc, cl, fds, accepted, children, pending, hpc, runs>>

\* a null pointer (th->storage = 0, th->last_storage = 0)
NULL == 0

\* #define MIN(a,b)
MIN(a, b) == IF a < b THEN a ELSE b

\* --------------------------------------------------- backing files (kernel)
\* write(fd, new, Len(new)) at file position pos of a file holding bytes
FileWrite(bytes, pos, new) ==
    LET n == IF Len(bytes) > pos + Len(new) THEN Len(bytes) ELSE pos + Len(new)
    IN [i \in 1..n |-> IF i > pos /\ i <= pos + Len(new) THEN new[i - pos]
                       ELSE bytes[i]]

\* read(fd, buf, count) at file position pos: the bytes up to end of file.  A
\* negative int count is a huge size_t: everything up to end of file.
FileRead(bytes, pos, count) ==
    LET left == IF Len(bytes) > pos THEN Len(bytes) - pos ELSE 0
        n == IF count < 0 THEN left ELSE MIN(count, left)
    IN SubSeq(bytes, pos + 1, pos + n)

\* the results one write(fd, p, towr) call can have: ret bytes accepted
\* (1 <= ret <= towr), or -1 with errno set
WriteResults(towr) ==
    {[ret |-> k, errno |-> "OK"] : k \in 1..towr}
        \cup {[ret |-> -1, errno |-> e] : e \in {"ENOSPC", "EIO"}}

\* ------------------------------------------------------------ Chunk Store
\* The functions take and return the memory and the cache directory:
\* s = [storage, last_storage, files, made].
Th == [storage |-> storage, last_storage |-> last_storage,
       files |-> files, made |-> made]

\* position in the list of the chunk a non-null pointer p refers to
Deref(s, p) == CHOOSE i \in 1..Len(s.storage) : s.storage[i].name = p

alloc_storage(s) ==
    LET c == [name |-> s.made + 1,          \* mkstemp: a fresh unique name
              posw |-> 0, posr |-> 0,       \* positions of fdw and fdr
              offr |-> 0, offw |-> 0,
              bytes |-> <<>>]               \* the content of the file
    IN [storage |-> Append(s.storage, c),
        last_storage |-> c.name,
        files |-> s.files \cup {c.name},
        made |-> s.made + 1]

\* drop_storage on a non-empty list (the empty list aborts: see the callers)
drop_storage(s) ==
    LET c == Head(s.storage)
    IN [storage |-> Tail(s.storage),
        last_storage |-> IF c.name = s.last_storage THEN NULL ELSE s.last_storage,
        files |-> s.files \ {c.name},
        made |-> s.made]

\* variant: an if in place of the while, only the head chunk is dropped
drop_all_storage_once(s) ==
    IF s.storage # <<>> THEN drop_storage(s) ELSE s

\* while (th->storage) drop_storage(th);

RECURSIVE drop_all_storage(_)
drop_all_storage(s) ==
    IF s.storage # <<>> THEN drop_all_storage(drop_storage(s)) ELSE s

\* variant: drops a drained head chunk whether or not it is sealed
RECURSIVE drop_used_storage_eager(_)
drop_used_storage_eager(s) ==
    IF /\ s.storage # <<>>
       /\ Head(s.storage).offr = Head(s.storage).offw
    THEN drop_used_storage_eager(drop_storage(s))
    ELSE s

RECURSIVE drop_used_storage(_)
drop_used_storage(s) ==
    IF /\ s.storage # <<>>
       /\ Head(s.storage).offr = Head(s.storage).offw
       /\ Head(s.storage).offw = chunksize
    THEN drop_used_storage(drop_storage(s))
    ELSE s

\* The functions that write are nondeterministic (each write() call has
\* several possible results): they yield the set of their possible outcomes.

\* variant: the count is not capped by the free space of the chunk
towr_nocap(c, buf, p) == Len(buf) - p

\* int towr = MIN(chunksize - s->offw, bufsz - (p - buf)) for the chunk c
towr(c, buf, p) == MIN(chunksize - c.offw, Len(buf) - p)

\* the chunk c after write(s->fdw, p, ...) stored sz bytes: p += sz is the
\* caller's, s->offw += sz
Written(c, buf, p, sz) ==
    [c EXCEPT !.bytes = FileWrite(@, c.posw, SubSeq(buf, p + 1, p + sz)),
              !.posw = @ + sz,
              !.offw = @ + sz]

\* variant: s->offw += sz runs with sz = -1 before the error is looked at
write_failed_moves(s, i, buf, errno, nok) ==
    [s |-> [s EXCEPT !.storage[i].offw = @ - 1], ret |-> Len(buf),
     errno |-> errno, nok |-> nok]

\* write() returned -1 on chunk number i: return bufsz on ENOSPC, otherwise
\* perror("write"), abort() (errno = "EIO" in the outcome)
write_failed(s, i, buf, errno, nok) ==
    IF errno = "ENOSPC"
    THEN [s |-> s, ret |-> Len(buf), errno |-> "ENOSPC", nok |-> nok]
    ELSE [s |-> s, ret |-> -1, errno |-> "EIO", nok |-> nok]

\* variant: one write() per call, no loop
storage_write_once(s, buf, p, nok) ==
    LET i == Deref(s, s.last_storage)
        c == s.storage[i]
    IN IF c.offw < chunksize /\ p < Len(buf)
       THEN {IF w.ret = -1
             THEN write_failed(s, i, buf, w.errno, nok)
             ELSE [s |-> [s EXCEPT !.storage[i] = Written(c, buf, p, w.ret)],
                   ret |-> p + w.ret, errno |-> "OK", nok |-> nok + 1]
             : w \in WriteResults(towr(c, buf, p))}
       ELSE {[s |-> s, ret |-> p, errno |-> "OK", nok |-> nok]}

\* the while loop of do_storage_write; p stands for p - buf, nok counts the
\* write() calls that succeeded
RECURSIVE storage_write_loop(_, _, _, _)
storage_write_loop(s, buf, p, nok) ==
    LET i == Deref(s, s.last_storage)
        c == s.storage[i]
    IN IF c.offw < chunksize /\ p < Len(buf)
       THEN UNION {IF w.ret = -1
                   THEN {write_failed(s, i, buf, w.errno, nok)}
                   ELSE storage_write_loop(
                            [s EXCEPT !.storage[i] = Written(c, buf, p, w.ret)],
                            buf, p + w.ret, nok + 1)
                   : w \in WriteResults(towr(c, buf, p))}
       ELSE {[s |-> s, ret |-> p, errno |-> "OK", nok |-> nok]}

\* variant: a chunk is allocated on every call
do_storage_write_fresh(s, buf) == storage_write_loop(alloc_storage(s), buf, 0, 0)

\* if (!th->last_storage || th->last_storage->offw == chunksize)
\*     alloc_storage(th);
\* and then the loop

do_storage_write(s, buf) ==
    LET s1 == IF s.last_storage = NULL
                 \/ s.storage[Deref(s, s.last_storage)].offw = chunksize
              THEN alloc_storage(s) ELSE s
    IN storage_write_loop(s1, buf, 0, 0)

\* the while loop of write_storage; p stands for p - buf, lost records that a
\* do_storage_write call hit ENOSPC.  An outcome holds, with the store and
\* the error, the number of write() calls that succeeded, the number of
\* do_storage_write calls made and the value of p - buf at the end.
RECURSIVE write_storage_loop(_, _, _, _, _)
write_storage_loop(s, buf, p, lost, nok) ==
    IF p < Len(buf)
    THEN UNION {IF r.errno = "EIO"
                THEN {[s |-> r.s, errno |-> "EIO", nok |-> nok + r.nok,
                       calls |-> 1, p |-> p]}
                ELSE {[o EXCEPT !.calls = @ + 1] :
                         o \in write_storage_loop(r.s, buf, p + r.ret,
                                                  lost \/ r.errno = "ENOSPC",
                                                  nok + r.nok)}
                : r \in do_storage_write(s, SubSeq(buf, p + 1, Len(buf)))}
    ELSE {[s |-> s, errno |-> IF lost THEN "ENOSPC" ELSE "OK", nok |-> nok,
           calls |-> 0, p |-> p]}

write_storage(s, buf) == write_storage_loop(s, buf, 0, FALSE, 0)

\* variant: no drop_used_storage call
data_available_noevict(s) ==
    [s |-> s,
     ret |-> IF s.storage # <<>>
             THEN Head(s.storage).offw - Head(s.storage).offr
             ELSE 0]

data_available(s) ==
    LET s1 == drop_used_storage(s)
    IN [s |-> s1,
        ret |-> IF s1.storage # <<>>
                THEN Head(s1.storage).offw - Head(s1.storage).offr
                ELSE 0]

\* variant: the lseek(s->fdr, -sz, SEEK_CUR) is missing
read_storage_noseek(s, bufsz) ==
    IF s.storage = <<>>
    THEN [s |-> s, abort |-> TRUE, sz |-> 0, buf |-> <<>>]
    ELSE LET c == Head(s.storage)
             got == FileRead(c.bytes, c.posr, MIN(c.offw - c.offr, bufsz))
         IN IF Len(got) = 0
            THEN [s |-> s, abort |-> TRUE, sz |-> 0, buf |-> <<>>]
            ELSE [s |-> [s EXCEPT !.storage[1].posr = @ + Len(got)],
                  abort |-> FALSE, sz |-> Len(got), buf |-> got]

\* abort = TRUE stands for the two abort() calls of read_storage
read_storage(s, bufsz) ==
    IF s.storage = <<>>
    THEN [s |-> s, abort |-> TRUE, sz |-> 0, buf |-> <<>>]
    ELSE LET c == Head(s.storage)
             tord == MIN(c.offw - c.offr, bufsz)
             got == FileRead(c.bytes, c.posr, tord)
             sz == Len(got)
             afterRead == c.posr + sz           \* read() moves the position
             afterSeek == afterRead - sz        \* lseek(fdr, -sz, SEEK_CUR)
         IN IF sz = 0
            THEN [s |-> s, abort |-> TRUE, sz |-> 0, buf |-> <<>>]
            ELSE [s |-> [s EXCEPT !.storage[1].posr = afterSeek],
                  abort |-> FALSE, sz |-> sz, buf |-> got]

\* variant: the lseek(th->storage->fdr, sz, SEEK_CUR) is missing
advance_storage_noseek(s, sz) ==
    IF s.storage = <<>>
    THEN [s |-> s, abort |-> TRUE]
    ELSE [s |-> [s EXCEPT !.storage[1].offr = @ + sz], abort |-> FALSE]

\* abort = TRUE stands for "No storage to advance!", abort()
advance_storage(s, sz) ==
    IF s.storage = <<>>
    THEN [s |-> s, abort |-> TRUE]
    ELSE [s |-> [s EXCEPT !.storage[1].offr = @ + sz,
                          !.storage[1].posr = @ + sz],
          abort |-> FALSE]

\* assignment of the memory and the cache directory
SetTh(s) ==
    /\ storage' = s.storage
    /\ last_storage' = s.last_storage
    /\ files' = s.files
    /\ made' = s.made

\* ------------------------------------------------- the API harness (Store)
\* A caller of the Chunk Store issuing write_storage, data_available,
\* read_storage and advance_storage in any order, one call at a time.
NoCall == [op |-> "none", arg |-> 0, ret |-> 0]
NoWrite == [errno |-> "OK", nok |-> 0, bufsz |-> 0, calls |-> 0, p |-> 0]

\* the next n bytes of the producer's stream
NextBytes(n) == [i \in 1..n |-> Len(appended) + i]

\* the parent process as it enters the loop of main: nothing accepted, no
\* child, the handler sigchld installed and not running
InitMain ==
    /\ mpc = "select"
    /\ cl = 0
    /\ fds = {}
    /\ accepted = 0
    /\ children = <<>>
    /\ pending = FALSE
    /\ hpc = "idle"
    /\ runs = 0

InitCommon ==
    /\ chunksize \in 1..MaxChunk
    /\ storage = <<>>
    /\ last_storage = NULL
    /\ files = {}
    /\ made = 0
    /\ in = 1
    /\ data = 0
    /\ rd = {}
    /\ wr = {}
    /\ appended = <<>>
    /\ discards = 0
    /\ sink = <<>>
    /\ rev = 0
    /\ fwd = <<>>
    /\ why = "running"
    /\ lastw = NoWrite
    /\ call = NoCall
    /\ peeked = <<>>
    /\ consumed = <<>>
    /\ InitMain

InitStore == InitCommon /\ pc = "api"

\* write_storage(th, buf, n) with the next n bytes of the stream
StWrite ==
    /\ pc = "api"
    /\ \E n \in 1..XferUnit :
         /\ Len(appended) + n <= MaxInput
         /\ \E r \in write_storage(Th, NextBytes(n)) :
               /\ r.errno = "ENOSPC" => discards < MaxDiscards
               /\ SetTh(r.s)
               /\ appended' = appended \o NextBytes(n)
               /\ discards' = IF r.errno = "ENOSPC" THEN discards + 1 ELSE discards
               /\ pc' = IF r.errno = "EIO" THEN "aborted" ELSE "api"
               /\ call' = [op |-> "write_storage", arg |-> 0, ret |-> 0]
    /\ UNCHANGED supvars
    /\ UNCHANGED <<chunksize, in, data, rd, wr, sink, rev, fwd, why, lastw,
                   peeked, consumed>>

StAvailable ==
    /\ pc = "api"
    /\ LET r == data_available(Th)
       IN /\ SetTh(r.s)
          /\ call' = [op |-> "data_available", arg |-> 0, ret |-> r.ret]
    /\ UNCHANGED supvars
    /\ UNCHANGED <<chunksize, pc, in, data, rd, wr, appended, discards, sink,
                   rev, fwd, why, lastw, peeked, consumed>>

\* read_storage(th, buffer, n)
StPeek ==
    /\ pc = "api"
    /\ \E n \in 0..XferUnit :
         LET r == read_storage(Th, n)
         IN /\ SetTh(r.s)
            /\ pc' = IF r.abort THEN "aborted" ELSE "api"
            /\ peeked' = r.buf
            /\ call' = [op |-> "read_storage", arg |-> n, ret |-> r.sz]
    /\ UNCHANGED supvars
    /\ UNCHANGED <<chunksize, in, data, rd, wr, appended, discards, sink, rev,
                   fwd, why, lastw, consumed>>

\* advance_storage(th, n), any n.  A caller that advances over more bytes than
\* its last peek holds has left the caller contract: the harness follows it
\* no further (pc = "misused").
StAdvance ==
    /\ pc = "api"
    /\ \E n \in 0..XferUnit :
         LET r == advance_storage(Th, n)
             ok == n <= Len(peeked)
         IN /\ SetTh(r.s)
            /\ pc' = IF r.abort THEN "aborted" ELSE IF ok THEN "api" ELSE "misused"
            /\ consumed' = IF ok THEN consumed \o SubSeq(peeked, 1, n) ELSE consumed
            /\ peeked' = IF ok THEN SubSeq(peeked, n + 1, Len(peeked)) ELSE <<>>
            /\ call' = [op |-> "advance_storage", arg |-> n, ret |-> 0]
    /\ UNCHANGED supvars
    /\ UNCHANGED <<chunksize, in, data, rd, wr, appended, discards, sink, rev,
                   fwd, why, lastw>>

NextStore == StWrite \/ StAvailable \/ StPeek \/ StAdvance

SpecStore == InitStore /\ [][NextStore]_vars

\* ------------------------------------------------ the pump, do_timeshift
\* pc: "loop" (the while condition, line 301), "select" (line 311), "input"
\* (line 315), "reverse" (line 324), "output" (line 333), "exit" (the exit
\* label, line 352), "done" (returned), "aborted" (abort() was called),
\* "killed" (ended by a signal, SpecSignal); "main" when the process looked
\* at is the parent (SpecSuper).
Init == InitCommon /\ pc = "loop"

\* variant: fdin and fdout are waited on for reading whatever in is
read_wait_set_always(inp) == {"fdin", "fdout"}

\* FD_ZERO(&rd); if (in) { FD_SET(fdin, &rd); FD_SET(fdout, &rd); }
read_wait_set(inp) == IF inp # 0 THEN {"fdin", "fdout"} ELSE {}

\* variant: fdout is always waited on for writing
write_wait_set_always(d) == {"fdout"}

\* FD_ZERO(&wr); if (data) FD_SET(fdout, &wr);
write_wait_set(d) == IF d # 0 THEN {"fdout"} ELSE {}

\* the while condition holds: the wait sets are built
LoopEnter ==
    /\ pc = "loop"
    /\ LET r == data_available(Th)
       IN /\ r.ret # 0 \/ in # 0
          /\ SetTh(r.s)
          /\ data' = r.ret
          /\ rd' = read_wait_set(in)
          /\ wr' = write_wait_set(r.ret)
          /\ pc' = "select"
    /\ lastw' = NoWrite
    /\ call' = NoCall
    /\ UNCHANGED supvars
    /\ UNCHANGED <<chunksize, in, appended, discards, sink, rev, fwd, why, peeked,
                   consumed>>

\* the while condition fails: fall through to the exit label
LoopLeave ==
    /\ pc = "loop"
    /\ LET r == data_available(Th)
       IN /\ ~(r.ret # 0 \/ in # 0)
          /\ SetTh(r.s)
          /\ data' = r.ret
          /\ pc' = "exit"
          /\ why' = "drained"
    /\ lastw' = NoWrite
    /\ call' = NoCall
    /\ UNCHANGED supvars
    /\ UNCHANGED <<chunksize, in, rd, wr, appended, discards, sink, rev, fwd, peeked,
                   consumed>>

\* select() blocks until some descriptor of the wait sets is ready and leaves
\* the ready ones in rd and wr
Select ==
    /\ pc = "select"
    /\ \E r \in SUBSET rd, w \in SUBSET wr :
         /\ r \cup w # {}
         /\ rd' = r
         /\ wr' = w
    /\ pc' = "input"
    /\ UNCHANGED supvars
    /\ UNCHANGED <<chunksize, storage, last_storage, files, made, in, data,
                   appended, discards, sink, rev, fwd, why, lastw, call, peeked,
                   consumed>>

\* !FD_ISSET(fdin, &rd)
InputSkip ==
    /\ pc = "input"
    /\ "fdin" \notin rd
    /\ pc' = "reverse"
    /\ UNCHANGED supvars
    /\ UNCHANGED <<chunksize, storage, last_storage, files, made, in, data, rd, wr,
                   appended, discards, sink, rev, fwd, why, lastw, call, peeked,
                   consumed>>

\* read(fdin) returns 0 or -1
InputClosed ==
    /\ pc = "input"
    /\ "fdin" \in rd
    /\ in' = 0
    /\ pc' = "reverse"
    /\ UNCHANGED supvars
    /\ UNCHANGED <<chunksize, storage, last_storage, files, made, data, rd, wr,
                   appended, discards, sink, rev, fwd, why, lastw, call, peeked,
                   consumed>>

\* read(fdin) returns sz > 0 bytes, which write_storage appends
InputData ==
    /\ pc = "input"
    /\ "fdin" \in rd
    /\ \E sz \in 1..XferUnit :
         /\ Len(appended) + sz <= MaxStream
         /\ \E r \in write_storage(Th, NextBytes(sz)) :
               /\ r.errno = "ENOSPC" => discards < MaxDiscards
               /\ SetTh(r.s)
               /\ appended' = appended \o NextBytes(sz)
               /\ discards' = IF r.errno = "ENOSPC" THEN discards + 1 ELSE discards
               /\ lastw' = [errno |-> r.errno, nok |-> r.nok, bufsz |-> sz,
                            calls |-> r.calls, p |-> r.p]
               /\ pc' = IF r.errno = "EIO" THEN "aborted" ELSE "reverse"
    /\ UNCHANGED supvars
    /\ UNCHANGED <<chunksize, in, data, rd, wr, sink, rev, fwd, why, call, peeked,
                   consumed>>

\* the loop of sendall; sz bytes are left to send, fwd collects the bytes
\* write(s) accepted.  TEMP_FAILURE_RETRY repeats a write that failed with
\* EINTR, so each write() here has a result other than EINTR.
\* An outcome holds the return value, the bytes sent and the number of
\* write() calls made.
RECURSIVE sendall_loop(_, _, _)
sendall_loop(buf, sz, size) ==
    IF sz # 0
    THEN UNION {IF ret = -1
                THEN {[ret |-> -1, sent |-> SubSeq(buf, 1, size - sz), writes |-> 1]}
                ELSE {[r EXCEPT !.writes = @ + 1] :
                         r \in sendall_loop(buf, sz - ret, size)}
                : ret \in {-1} \cup 1..sz}
    ELSE {[ret |-> size, sent |-> buf, writes |-> 0]}

\* variant: one write() only, whose count is not looked at
sendall_once(buf, size) ==
    {[ret |-> size, sent |-> SubSeq(buf, 1, k), writes |-> 1] : k \in 1..size}
        \cup {[ret |-> -1, sent |-> <<>>, writes |-> 1]}

sendall(buf, size) == sendall_loop(buf, size, size)

\* !FD_ISSET(fdout, &rd)
ReverseSkip ==
    /\ pc = "reverse"
    /\ "fdout" \notin rd
    /\ pc' = "output"
    /\ UNCHANGED supvars
    /\ UNCHANGED <<chunksize, storage, last_storage, files, made, in, data, rd, wr,
                   appended, discards, sink, rev, fwd, why, lastw, call, peeked,
                   consumed>>

\* read(fdout) returns 0 or -1: goto exit
ReverseClosed ==
    /\ pc = "reverse"
    /\ "fdout" \in rd
    /\ pc' = "exit"
    /\ why' = "reverse read"
    /\ UNCHANGED supvars
    /\ UNCHANGED <<chunksize, storage, last_storage, files, made, in, data, rd, wr,
                   appended, discards, sink, rev, fwd, lastw, call, peeked,
                   consumed>>

\* read(fdout) returns sz > 0 bytes, which sendall forwards to fdin
ReverseData ==
    /\ pc = "reverse"
    /\ "fdout" \in rd
    /\ \E sz \in 1..XferUnit :
         /\ rev + sz <= MaxRev
         /\ \E r \in sendall([i \in 1..sz |-> rev + i], sz) :
               /\ rev' = rev + sz
               /\ fwd' = fwd \o r.sent
               /\ call' = [op |-> "sendall", arg |-> r.writes, ret |-> r.ret]
               /\ pc' = IF r.ret = -1 THEN "exit" ELSE "output"
               /\ why' = IF r.ret = -1 THEN "sendall" ELSE why
    /\ UNCHANGED supvars
    /\ UNCHANGED <<chunksize, storage, last_storage, files, made, in, data, rd, wr,
                   appended, discards, sink, lastw, peeked, consumed>>

\* !FD_ISSET(fdout, &wr)
OutputSkip ==
    /\ pc = "output"
    /\ "fdout" \notin wr
    /\ pc' = "loop"
    /\ UNCHANGED supvars
    /\ UNCHANGED <<chunksize, storage, last_storage, files, made, in, data, rd, wr,
                   appended, discards, sink, rev, fwd, why, lastw, call, peeked,
                   consumed>>

\* write(fdout) returns -1: goto exit
OutputFailed ==
    /\ pc = "output"
    /\ "fdout" \in wr
    /\ LET r == read_storage(Th, XferUnit)
       IN /\ ~r.abort
          /\ SetTh(r.s)
    /\ pc' = "exit"
    /\ why' = "write"
    /\ UNCHANGED supvars
    /\ UNCHANGED <<chunksize, in, data, rd, wr, appended, discards, sink, rev, fwd,
                   lastw, call, peeked, consumed>>

\* variant: the cursor advances by the bytes peeked, not the bytes written
output_advance_peeked(r, wsz) == advance_storage(r.s, r.sz)

\* what the output branch does to the Chunk Store once write(fdout) has
\* accepted wsz of the bytes r = read_storage(...) returned
output_advance(r, wsz) == advance_storage(r.s, wsz)

\* read_storage aborts, or write(fdout) accepts wsz bytes, 0 <= wsz <= sz
OutputWritten ==
    /\ pc = "output"
    /\ "fdout" \in wr
    /\ LET r == read_storage(Th, XferUnit)
       IN IF r.abort
          THEN /\ pc' = "aborted"
               /\ UNCHANGED <<storage, last_storage, files, made, sink, call>>
          ELSE \E wsz \in 0..r.sz :
                 LET a == output_advance(r, wsz)
                 IN /\ SetTh(a.s)
                    /\ sink' = sink \o SubSeq(r.buf, 1, wsz)
                    /\ call' = [op |-> "output", arg |-> r.sz, ret |-> wsz]
                    /\ pc' = IF a.abort THEN "aborted" ELSE "loop"
    /\ UNCHANGED supvars
    /\ UNCHANGED <<chunksize, in, data, rd, wr, appended, discards, rev, fwd, why,
                   lastw, peeked, consumed>>

\* exit: drop_all_storage(th); free(th)
Exit ==
    /\ pc = "exit"
    /\ SetTh(drop_all_storage(Th))
    /\ pc' = "done"
    /\ UNCHANGED supvars
    /\ UNCHANGED <<chunksize, in, data, rd, wr, appended, discards, sink, rev, fwd,
                   why, lastw, call, peeked, consumed>>

Next ==
    \/ LoopEnter \/ LoopLeave \/ Select
    \/ InputSkip \/ InputClosed \/ InputData
    \/ ReverseSkip \/ ReverseClosed \/ ReverseData
    \/ OutputSkip \/ OutputFailed \/ OutputWritten
    \/ Exit

Spec == Init /\ [][Next]_vars

\* ------------------------------------------------- the pump under signals
\* main installs two dispositions, signal(SIGPIPE, SIG_IGN) and
\* signal(SIGCHLD, sigchld), which the forked worker inherits; every other
\* signal keeps its default action.  A system call a caught signal interrupts
\* returns -1 with errno = EINTR; call records it (op "EINTR", arg the call).

\* a signal whose default action is to terminate the process (SIGTERM,
\* SIGINT, SIGHUP) is delivered: the process ends where it stands, the kernel
\* closes its descriptors and no instruction of the program runs
Terminate ==
    /\ pc \in {"loop", "select", "input", "reverse", "output", "exit"}
    /\ pc' = "killed"
    /\ UNCHANGED supvars
    /\ UNCHANGED <<chunksize, storage, last_storage, files, made, in, data, rd, wr,
                   appended, discards, sink, rev, fwd, why, lastw, call, peeked,
                   consumed>>

Interrupted(what) == [op |-> "EINTR", arg |-> what, ret |-> -1]

\* TEMP_FAILURE_RETRY(select(...)): select returns -1 with EINTR and leaves
\* the sets as they are; the macro calls it again
SelectInterrupted ==
    /\ pc = "select"
    /\ call # Interrupted("select")
    /\ call' = Interrupted("select")
    /\ UNCHANGED supvars
    /\ UNCHANGED <<chunksize, storage, last_storage, files, made, pc, in, data, rd,
                   wr, appended, discards, sink, rev, fwd, why, lastw, peeked,
                   consumed>>

\* read(fdin, buffer, 4096) returns -1 with EINTR: sz == -1, in = 0
InputInterrupted ==
    /\ pc = "input"
    /\ "fdin" \in rd
    /\ in' = 0
    /\ pc' = "reverse"
    /\ call' = Interrupted("read fdin")
    /\ UNCHANGED supvars
    /\ UNCHANGED <<chunksize, storage, last_storage, files, made, data, rd, wr,
                   appended, discards, sink, rev, fwd, why, lastw, peeked,
                   consumed>>

\* read(fdout, buffer, 4096) returns -1 with EINTR: sz <= 0, goto exit
ReverseInterrupted ==
    /\ pc = "reverse"
    /\ "fdout" \in rd
    /\ pc' = "exit"
    /\ why' = "reverse read"
    /\ call' = Interrupted("read fdout")
    /\ UNCHANGED supvars
    /\ UNCHANGED <<chunksize, storage, last_storage, files, made, in, data, rd, wr,
                   appended, discards, sink, rev, fwd, lastw, peeked, consumed>>

\* write(fdout, buffer, sz) returns -1 with EINTR: wsz == -1, goto exit
OutputInterrupted ==
    /\ pc = "output"
    /\ "fdout" \in wr
    /\ LET r == read_storage(Th, XferUnit)
       IN /\ ~r.abort
          /\ SetTh(r.s)
    /\ pc' = "exit"
    /\ why' = "write"
    /\ call' = Interrupted("write fdout")
    /\ UNCHANGED supvars
    /\ UNCHANGED <<chunksize, in, data, rd, wr, appended, discards, sink, rev, fwd,
                   lastw, peeked, consumed>>

NextSignal ==
    \/ Next
    \/ Terminate
    \/ SelectInterrupted \/ InputInterrupted \/ ReverseInterrupted
    \/ OutputInterrupted

SpecSignal == Init /\ [][NextSignal]_vars

\* ------------------------------------ the parent process: main and sigchld
\* mpc: "select" (line 524), "accept" (line 529), "fork" (line 534), "close"
\* (line 541).  hpc: "idle", or "sigchld" while the handler runs.  The handler
\* was installed by signal(), which with _GNU_SOURCE keeps it installed and
\* holds further SIGCHLDs pending while it runs; it runs on the stack of
\* main, which goes on only when it has returned.  accept and fork are taken
\* to succeed (their failure aborts the parent).
InitSuper == InitCommon /\ pc = "main"

\* the unchanged state of the worker model
pumpvars == <<chunksize, storage, last_storage, files, made, pc, in, data, rd,
              wr, appended, discards, sink, rev, fwd, why, lastw, call, peeked,
              consumed>>

Zombies == {p \in DOMAIN children : children[p].st = "zombie"}

\* a connection arrives: select returns with s readable (a select that a
\* SIGCHLD interrupted is called again by TEMP_FAILURE_RETRY)
MainSelect ==
    /\ mpc = "select"
    /\ hpc = "idle"
    /\ accepted < MaxConn
    /\ mpc' = "accept"
    /\ UNCHANGED <<cl, fds, accepted, children, pending, hpc, runs>>
    /\ UNCHANGED pumpvars

\* int cl = accept(s, 0, 0): a new descriptor, open in the parent
MainAccept ==
    /\ mpc = "accept"
    /\ hpc = "idle"
    /\ accepted' = accepted + 1
    /\ cl' = accepted + 1
    /\ fds' = fds \cup {accepted + 1}
    /\ mpc' = "fork"
    /\ UNCHANGED <<children, pending, hpc, runs>>
    /\ UNCHANGED pumpvars

\* pid = fork(): the child closes s and runs thread(cl)
MainFork ==
    /\ mpc = "fork"
    /\ hpc = "idle"
    /\ children' = Append(children, [cl |-> cl, st |-> "running"])
    /\ mpc' = "close"
    /\ UNCHANGED <<cl, fds, accepted, pending, hpc, runs>>
    /\ UNCHANGED pumpvars

\* variant: the parent keeps its copy of the accepted descriptor
main_close_kept(f, c) == f

\* close(cl) in the parent
main_close(f, c) == f \ {c}

MainClose ==
    /\ mpc = "close"
    /\ hpc = "idle"
    /\ fds' = main_close(fds, cl)
    /\ mpc' = "select"
    /\ UNCHANGED <<cl, accepted, children, pending, hpc, runs>>
    /\ UNCHANGED pumpvars

\* a worker returns from main (thread(cl) is over) or is killed: it stays a
\* zombie until waited for, and the kernel marks SIGCHLD pending for the
\* parent (one flag: a SIGCHLD raised while one is pending is not queued)
WorkerExit ==
    /\ \E p \in DOMAIN children :
         /\ children[p].st = "running"
         /\ children' = [children EXCEPT ![p].st = "zombie"]
    /\ pending' = TRUE
    /\ UNCHANGED <<mpc, cl, fds, accepted, hpc, runs>>
    /\ UNCHANGED pumpvars

\* the pending SIGCHLD is delivered: sigchld is entered
Deliver ==
    /\ pending
    /\ hpc = "idle"
    /\ pending' = FALSE
    /\ hpc' = "sigchld"
    /\ runs' = runs + 1
    /\ UNCHANGED <<mpc, cl, fds, accepted, children>>
    /\ UNCHANGED pumpvars

\* variant: an if in place of the while (1), one waitpid per handler run
sigchld_once(ret) == "idle"

\* while (1) if (waitpid(WAIT_ANY, &status, WNOHANG) <= 0) break;
\* where the handler stands after waitpid returned ret
sigchld_loop(ret) == IF ret <= 0 THEN "idle" ELSE "sigchld"

\* waitpid returns the pid of a zombie, which is reaped
HandlerReap ==
    /\ hpc = "sigchld"
    /\ \E p \in Zombies :
         /\ children' = [children EXCEPT ![p].st = "reaped"]
         /\ hpc' = sigchld_loop(p)
    /\ UNCHANGED <<mpc, cl, fds, accepted, pending, runs>>
    /\ UNCHANGED pumpvars

\* no child has anything to report: waitpid returns 0 (children are
\* running) or -1 (ECHILD, there is no child), and the handler returns
HandlerReturn ==
    /\ hpc = "sigchld"
    /\ Zombies = {}
    /\ \E ret \in {0, -1} :
         /\ ret = -1 <=> \A p \in DOMAIN children : children[p].st = "reaped"
         /\ hpc' = sigchld_loop(ret)
    /\ UNCHANGED <<mpc, cl, fds, accepted, children, pending, runs>>
    /\ UNCHANGED pumpvars

NextSuper ==
    \/ MainSelect \/ MainAccept \/ MainFork \/ MainClose
    \/ WorkerExit
    \/ Deliver \/ HandlerReap \/ HandlerReturn

\* The kernel delivers a pending signal that is not blocked, and the handler,
\* which makes non-blocking calls only, runs on.
SpecSuper ==
    /\ InitSuper
    /\ [][NextSuper]_vars
    /\ WF_vars(Deliver)
    /\ WF_vars(HandlerReap)
    /\ WF_vars(HandlerReturn)

\* ------------------------------------------------------------ properties
IsPrefix(a, b) == Len(a) <= Len(b) /\ a = SubSeq(b, 1, Len(a))

Unread(c) == c.offw - c.offr

Sealed(c) == c.offw = chunksize

RECURSIVE TotalUnread(_)
TotalUnread(q) == IF q = <<>> THEN 0 ELSE Unread(Head(q)) + TotalUnread(Tail(q))

\* the content of all backing files of the queue, head first
RECURSIVE AllBytes(_)
AllBytes(q) == IF q = <<>> THEN <<>> ELSE Head(q).bytes \o AllBytes(Tail(q))

Names(q) == {q[i].name : i \in 1..Len(q)}

\* C1 (SpecStore): as long as no write hit ENOSPC and every advance stayed
\* within the bytes of the preceding peek, the bytes peeked and then advanced
\* over are a prefix of the bytes appended, and they are all of them whenever
\* data_available returns 0.
C1_FifoRoundTrip ==
    (pc # "misused" /\ discards = 0) =>
        /\ IsPrefix(consumed, appended)
        /\ (pc = "api" /\ data_available(Th).ret = 0) => consumed = appended

\* more bytes than one chunk holds went through the store and data_available
\* has just returned 0
C1_Witness ==
    /\ pc = "api"
    /\ discards = 0
    /\ call.op = "data_available"
    /\ call.ret = 0
    /\ Len(consumed) > chunksize
    /\ consumed = appended

\* C2 (Spec): with no ENOSPC discard, the bytes write(fdout) accepted so far
\* are a prefix of the bytes read so far from fdin, whatever count each output
\* write accepted.
C2_PumpFidelity == discards = 0 => IsPrefix(sink, appended)

\* an output write has just accepted some but not all of the bytes peeked,
\* after earlier output writes
C2_Witness ==
    /\ discards = 0
    /\ call.op = "output"
    /\ 0 < call.ret
    /\ call.ret < call.arg
    /\ Len(sink) > call.ret

\* C3 (Spec): every chunk of the queue has 0 <= offr <= offw <= chunksize.
C3_CursorInvariant ==
    \A i \in 1..Len(storage) :
        /\ 0 <= storage[i].offr
        /\ storage[i].offr <= storage[i].offw
        /\ storage[i].offw <= chunksize

\* an append whose first write() was short and whose second hit ENOSPC, with
\* a partly read head chunk and a second chunk in the queue
C3_Witness ==
    /\ lastw.errno = "ENOSPC"
    /\ lastw.nok > 0
    /\ Len(storage) >= 2
    /\ Head(storage).offr > 0
    /\ Head(storage).offr < Head(storage).offw

\* C4 (SpecStore): right after data_available, the head is not a sealed and
\* drained chunk, the result is the head's offw - offr (0 for the empty queue),
\* it does not exceed the unread bytes of the whole queue, and it is 0 exactly
\* when no chunk holds an unread byte.  With capacity 4, 8 bytes appended and
\* 4 advanced over, it returned 4 and one chunk is left.
C4_Available ==
    call.op = "data_available" =>
        /\ storage # <<>> => ~(Sealed(Head(storage)) /\ Unread(Head(storage)) = 0)
        /\ call.ret = IF storage = <<>> THEN 0 ELSE Unread(Head(storage))
        /\ call.ret <= TotalUnread(storage)
        /\ call.ret = 0 <=> \A i \in 1..Len(storage) : Unread(storage[i]) = 0
        /\ (chunksize = 4 /\ discards = 0 /\ Len(appended) = 8 /\ Len(consumed) = 4)
               => (call.ret = 4 /\ Len(storage) = 1)

\* the example: capacity 4, 8 bytes appended, 4 advanced over
C4_Witness ==
    /\ call.op = "data_available"
    /\ chunksize = 4
    /\ discards = 0
    /\ Len(appended) = 8
    /\ Len(consumed) = 4
    /\ call.ret = 4
    /\ Len(storage) = 1
    /\ made = 2

\* C5 (Spec): in every step of the pump before its exit label, the chunks
\* that leave the queue are its first ones, each with offr = offw = chunksize,
\* and the chunks that stay are unchanged and in the same order; after the
\* data_available call at the top of the loop the head is not such a chunk.
C5_Eviction ==
    [][pc # "exit" =>
        LET removed == Names(storage) \ Names(storage')
            k == Cardinality(removed)
        IN /\ \A i \in 1..Len(storage) :
                  storage[i].name \in removed =>
                      /\ i <= k
                      /\ storage[i].offr = storage[i].offw
                      /\ storage[i].offw = chunksize
           /\ k > 0 => storage' = SubSeq(storage, k + 1, Len(storage))
           /\ pc = "loop" =>
                  \/ storage' = <<>>
                  \/ ~(Sealed(Head(storage')) /\ Unread(Head(storage')) = 0)
    ]_vars

\* the loop top has run with an earlier chunk evicted, the new head unread
\* and another chunk behind it
C5_Witness ==
    /\ pc = "select"
    /\ Len(storage) >= 2
    /\ Head(storage).name >= 2
    /\ Head(storage).offr = 0
    /\ data > 0

\* C6 (SpecStore): a read_storage call that returns yields exactly the
\* MIN(max_len, offw - offr) bytes of the head chunk from its read cursor on,
\* none of them a byte of another chunk, leaves the queue, every cursor and
\* the file position of fdr unchanged, and repeats the bytes of a directly
\* preceding read_storage call with the same max_len.
C6_Peek ==
    [][(call'.op = "read_storage" /\ pc' = "api") =>
        /\ storage # <<>>
        /\ LET c == Head(storage)
               n == MIN(call'.arg, c.offw - c.offr)
           IN /\ call'.ret = n
              /\ peeked' = SubSeq(c.bytes, c.offr + 1, c.offr + n)
              /\ \A i \in 2..Len(storage), j \in 1..Len(peeked') :
                     \A l \in 1..Len(storage[i].bytes) :
                         storage[i].bytes[l] # peeked'[j]
        /\ storage' = storage
        /\ last_storage' = last_storage
        /\ (call.op = "read_storage" /\ call.arg = call'.arg) => peeked' = peeked
    ]_vars

\* a peek asked for more than the head chunk still holds while the next
\* chunk holds data, and returned the head chunk's bytes only
C6_Witness ==
    /\ pc = "api"
    /\ call.op = "read_storage"
    /\ call.ret < call.arg
    /\ Len(storage) >= 2
    /\ Head(storage).offr > 0
    /\ storage[2].offw > 0

\* C7 (SpecStore): advance_storage(n) decreases the head chunk's unread length
\* by exactly n and changes no other chunk, and a call with n greater than the
\* head chunk's unread length does not move the read cursor past the write
\* cursor.
C7_AdvanceChecked ==
    [][(pc = "api" /\ call'.op = "advance_storage" /\ pc' # "aborted") =>
        LET u == Unread(Head(storage))
            n == call'.arg
        IN IF n <= u
           THEN /\ Unread(Head(storage')) = u - n
                /\ Len(storage') = Len(storage)
                /\ \A i \in 2..Len(storage) : storage'[i] = storage[i]
           ELSE Head(storage').offr <= Head(storage').offw
    ]_vars

\* the part of C7 the code keeps: advance_storage(n) decreases the head
\* chunk's unread length by exactly n, for every n, and changes no other chunk
C7_AdvanceExact ==
    [][(pc = "api" /\ call'.op = "advance_storage" /\ pc' # "aborted") =>
        /\ Unread(Head(storage')) = Unread(Head(storage)) - call'.arg
        /\ Len(storage') = Len(storage)
        /\ \A i \in 2..Len(storage) : storage'[i] = storage[i]
    ]_vars

\* C8 (Spec): an append that hits ENOSPC does not abort, the loop goes on to
\* its next branch with the input still open, the files hold the bytes stored
\* before the failure and none of the rest (no retry), every write cursor
\* equals the length of its file, and when the failing write was the first one
\* the queue is unchanged but for a freshly allocated empty chunk; an append
\* that hits another write error aborts; any other append stores every byte.
C8_DiscardPolicy ==
    [][(pc = "input" /\ lastw'.bufsz > 0) =>
        LET buf == SubSeq(appended', Len(appended) + 1, Len(appended'))
        IN /\ lastw'.errno = "ENOSPC" =>
                  /\ pc' = "reverse"
                  /\ in' = in
                  /\ \E k \in 0..(Len(buf) - 1) :
                         AllBytes(storage') = AllBytes(storage) \o SubSeq(buf, 1, k)
                  /\ \A i \in 1..Len(storage') :
                         storage'[i].offw = Len(storage'[i].bytes)
                  /\ lastw'.nok = 0 =>
                         storage' \in {storage, alloc_storage(Th).storage}
           /\ lastw'.errno = "EIO" => pc' = "aborted"
           /\ lastw'.errno = "OK" =>
                  /\ pc' = "reverse"
                  /\ AllBytes(storage') = AllBytes(storage) \o buf
    ]_vars

\* the first backing-file write of an append failed with ENOSPC and, in the
\* same iteration, the output branch went on to write buffered bytes
C8_Witness ==
    /\ pc = "loop"
    /\ lastw.errno = "ENOSPC"
    /\ lastw.nok = 0
    /\ call.op = "output"
    /\ call.ret > 0

\* C9 (Spec): when select is called, fdout is in the write set exactly when
\* data_available returned more than 0 (the head chunk's unread bytes), fdin
\* and fdout are in the read set exactly when in is set, and the two sets are
\* not both empty.
C9_WaitSets ==
    pc = "select" =>
        /\ "fdout" \in wr <=> data > 0
        /\ data = IF storage = <<>> THEN 0 ELSE Unread(Head(storage))
        /\ "fdin" \in rd <=> in # 0
        /\ "fdout" \in rd <=> in # 0
        /\ rd \cup wr # {}

\* select is called with the input open and waited for while several chunks
\* of unread bytes are buffered
C9_Witness ==
    /\ pc = "select"
    /\ in = 1
    /\ "fdin" \in rd
    /\ "fdout" \in wr
    /\ Len(storage) >= 2
    /\ TotalUnread(storage) >= 4

\* C10 (Spec): once the input is closed, do_timeshift leaves its loop without
\* an output write error only after every byte appended has been written to
\* fdout (no ENOSPC discard).
C10_DrainsBeforeExit ==
    (pc \in {"exit", "done"} /\ in = 0 /\ why # "write" /\ discards = 0) =>
        sink = appended

\* the part of C10 the code keeps: the loop is left by its condition only with
\* the input closed and every appended byte written
C10_NormalExit ==
    (why = "drained" /\ discards = 0) => (in = 0 /\ sink = appended)

\* C11 (Spec): when do_timeshift has returned, by whichever path it left its
\* loop, the queue is empty, last_storage is null and no backing file is left
\* in the cache directory; from the exit label on, nothing more is written to
\* fdout or appended, so the bytes still buffered there are never delivered.
C11_ReleaseOnExit ==
    [][/\ pc' = "done" =>
              /\ storage' = <<>>
              /\ last_storage' = NULL
              /\ files' = {}
       /\ pc \in {"exit", "done"} =>
              /\ sink' = sink
              /\ appended' = appended
              /\ fwd' = fwd
    ]_vars

\* do_timeshift has returned after a failed output write that left the bytes
\* of two or more chunks undelivered
C11_Witness ==
    /\ pc = "done"
    /\ why = "write"
    /\ discards = 0
    /\ made >= 2
    /\ Len(appended) - Len(sink) > chunksize

\* C12 (SpecSignal): a process that a termination signal ended while it ran
\* the pump has left no backing file in the cache directory.
C12_ReleaseOnSignal == pc = "killed" => files = {}

\* the bytes number rev + 1 .. rev' of the reverse direction: the block the
\* step has read from fdout
RevBlock == [i \in 1..(rev' - rev) |-> rev + i]

\* C13 (Spec): a block read from fdout leaves the Chunk Store, the input flag
\* and fdout's output untouched and goes to fdin within the same step: when
\* sendall returns the block's size, fdin has received the whole block after
\* everything forwarded before, whatever the counts of the single writes; when
\* a write fails, sendall returns -1, fdin has received a proper prefix of the
\* block and the pump goes to its exit label; a reverse read of 0 or -1 goes
\* to the exit label as well.  Unless a forward write failed, fdin has
\* received every byte read from fdout, in order.
C13_ReverseRelay ==
    [][/\ (pc = "reverse" /\ rev' > rev) =>
              /\ call'.op = "sendall"
              /\ <<storage', last_storage', files', made'>> =
                     <<storage, last_storage, files, made>>
              /\ <<sink', appended', in'>> = <<sink, appended, in>>
              /\ call'.ret \in {-1, rev' - rev}
              /\ call'.ret = rev' - rev =>
                     /\ fwd' = fwd \o RevBlock
                     /\ pc' = "output"
              /\ call'.ret = -1 =>
                     /\ IsPrefix(fwd', fwd \o RevBlock)
                     /\ fwd' # fwd \o RevBlock
                     /\ pc' = "exit"
       /\ (pc = "reverse" /\ pc' # "output") => pc' = "exit"
       /\ why' # "sendall" => fwd' = [i \in 1..rev' |-> i]
    ]_vars

\* a second block from fdout has been forwarded whole, by more than one
\* write(), after the first
C13_Witness ==
    /\ pc = "output"
    /\ call.op = "sendall"
    /\ call.arg >= 2
    /\ call.ret >= 2
    /\ Len(fwd) > call.ret
    /\ fwd = [i \in 1..rev |-> i]

\* the state of the pump: OPEN (in set), DRAINING (in clear, still in the
\* loop), CLOSED (at or past the exit label)
PumpState ==
    IF pc \in {"exit", "done"} THEN "CLOSED"
    ELSE IF in # 0 THEN "OPEN" ELSE "DRAINING"

\* C14 (Spec): the pump's state only moves OPEN -> DRAINING -> CLOSED or
\* OPEN -> CLOSED; once in is 0 it stays 0 and fdin is not read again (no
\* byte is appended); an output write failure, a reverse read failure and a
\* sendall failure put the pump at its exit label in that very step, from
\* OPEN and from DRAINING; and once CLOSED nothing is read, written,
\* appended, peeked or advanced: the only step left releases the chunks.
C14_Monotone ==
    [][pc # "aborted" /\ pc' # "aborted" =>
        /\ <<PumpState, PumpState'>> \in
               {<<"OPEN", "OPEN">>, <<"OPEN", "DRAINING">>, <<"OPEN", "CLOSED">>,
                <<"DRAINING", "DRAINING">>, <<"DRAINING", "CLOSED">>,
                <<"CLOSED", "CLOSED">>}
        /\ in = 0 => (in' = 0 /\ appended' = appended)
        /\ why' # why => PumpState' = "CLOSED"
        /\ PumpState = "CLOSED" =>
               /\ <<appended', sink', rev', fwd', in', why'>> =
                      <<appended, sink, rev, fwd, in, why>>
               /\ pc = "exit" /\ pc' = "done"
               /\ storage' = <<>>
    ]_vars

\* a draining pump (input closed, bytes of two chunks buffered) has been
\* closed by a failed output write
C14_Witness ==
    /\ pc = "done"
    /\ in = 0
    /\ why = "write"
    /\ Len(sink) > 0
    /\ Len(appended) - Len(sink) > chunksize

\* C15 (SpecSignal): a system call of the pump that a signal interrupts is
\* retried: the step leaves in, the queue and the position of the pump as
\* they are, and the pump does not go to its exit label.
C15_InterruptedRetried ==
    [][(call'.op = "EINTR" /\ call' # call) =>
        /\ in' = in
        /\ pc' = pc
        /\ why' = why
        /\ storage' = storage
    ]_vars

\* the part of C15 the code keeps: an interrupted select is called again
\* with the same sets (the forward write of sendall is wrapped in the same
\* macro: see sendall_loop)
C15_SelectRetried ==
    [][(call' = Interrupted("select") /\ call' # call) =>
        /\ pc' = pc
        /\ <<in', rd', wr', storage', why'>> = <<in, rd, wr, storage, why>>
    ]_vars

\* C16 (SpecSuper): whenever the parent is back at its select, one worker
\* has been forked for each connection accepted, each serving its own
\* descriptor, and the parent holds no accepted descriptor open (at most one,
\* the one at hand, between accept and close); a zombie exists only while a
\* SIGCHLD is pending or the handler runs; and every worker that has become
\* a zombie is eventually reaped.
C16_Hygiene ==
    /\ [](/\ mpc = "select" =>
                /\ fds = {}
                /\ Len(children) = accepted
                /\ \A p \in DOMAIN children : children[p].cl = p
          /\ fds \subseteq {cl}
          /\ (hpc = "idle" /\ ~pending) => Zombies = {})
    /\ \A p \in 1..MaxConn :
           (p \in Zombies) ~> (p \in DOMAIN children /\ children[p].st = "reaped")

\* two workers ended before the handler ran once, and its single run has
\* reaped both; the parent is back at select with three connections accepted
C16_Witness ==
    /\ mpc = "select"
    /\ accepted >= 3
    /\ runs = 1
    /\ hpc = "idle"
    /\ ~pending
    /\ Cardinality({p \in DOMAIN children : children[p].st = "reaped"}) >= 2

\* the shape of the queue: every chunk but the last is sealed, every chunk
\* but the first is unread, last_storage is null exactly when the queue is
\* empty and names its last chunk otherwise, and the backing files present
\* are those of the chunks of the queue
QueueShape ==
    /\ \A i \in 1..(Len(storage) - 1) : Sealed(storage[i])
    /\ \A i \in 2..Len(storage) : storage[i].offr = 0
    /\ last_storage = NULL <=> storage = <<>>
    /\ storage # <<>> => last_storage = storage[Len(storage)].name
    /\ files = Names(storage)
    /\ Cardinality(files) = Len(storage)

\* C17 (Spec): every step of the pump leaves the queue in shape (QueueShape);
\* chunks are allocated by the append of the input branch only, at the tail
\* and in the order of their creation, and only once the chunk that was the
\* tail is sealed; and a chunk that is sealed is never written again.
C17_ChunkLifecycle ==
    [][/\ QueueShape'
       /\ made' > made =>
              /\ pc = "input"
              /\ lastw'.bufsz > 0
              /\ Len(storage') = Len(storage) + (made' - made)
              /\ \A k \in 1..(made' - made) :
                     storage'[Len(storage) + k].name = made + k
              /\ storage # <<>> => Sealed(storage'[Len(storage)])
       /\ \A i \in 1..Len(storage), j \in 1..Len(storage') :
              (storage[i].name = storage'[j].name /\ Sealed(storage[i])) =>
                  /\ storage'[j].bytes = storage[i].bytes
                  /\ storage'[j].offw = storage[i].offw
    ]_vars

\* an append has just hit ENOSPC after filling the tail chunk and allocating
\* another, with an earlier chunk evicted and the head partly read
C17_Witness ==
    /\ pc = "reverse"
    /\ lastw.errno = "ENOSPC"
    /\ lastw.nok > 0
    /\ Len(storage) >= 2
    /\ Head(storage).name >= 2
    /\ Head(storage).offr > 0
    /\ storage[Len(storage)].offw = 0

\* C18 (Spec): fdout is read for the reverse direction, and the block read is
\* forwarded to fdin, only while in is set at the moment of that read.
C18_ReverseOnlyWhileOpen ==
    [][(pc = "reverse" /\ (rev' > rev \/ why' = "reverse read")) => in # 0]_vars

\* the part of C18 the code keeps: fdout is waited on for reading only while
\* in is set when the wait sets are built, and is read in the reverse branch
\* only if that select reported it
C18_ReverseWaitedWhileOpen ==
    [][/\ pc = "loop" /\ pc' = "select" => ("fdout" \in rd' <=> in # 0)
       /\ (pc = "reverse" /\ (rev' > rev \/ why' = "reverse read")) =>
              "fdout" \in rd
    ]_vars

\* C19 (Spec): whenever the output branch is taken the queue is not empty
\* and its head holds unread bytes, so read_storage returns sz =
\* MIN(4096, offw - offr) > 0 bytes and neither read_storage nor
\* advance_storage aborts; advance_storage is called with the count wsz the
\* output write accepted, 0 <= wsz <= sz, and moves the head's read cursor by
\* exactly that; the pump aborts on a failed append only.
C19_CallerContract ==
    [][/\ (pc = "output" /\ "fdout" \in wr) =>
              /\ storage # <<>>
              /\ Unread(Head(storage)) > 0
              /\ ~read_storage(Th, XferUnit).abort
              /\ pc' # "aborted"
              /\ pc' = "loop" =>
                     /\ call'.op = "output"
                     /\ call'.arg = MIN(XferUnit, Unread(Head(storage)))
                     /\ 0 <= call'.ret
                     /\ call'.ret <= call'.arg
                     /\ storage' # <<>>
                     /\ Head(storage').offr = Head(storage).offr + call'.ret
                     /\ Head(storage').offr <= Head(storage').offw
       /\ pc' = "aborted" => (pc = "input" /\ lastw'.errno = "EIO")
    ]_vars

\* the output branch has written all the bytes of its peek after, in the same
\* iteration, an append that ran into a second chunk, with bytes relayed in
\* the reverse direction
C19_Witness ==
    /\ pc = "loop"
    /\ call.op = "output"
    /\ call.arg > 0
    /\ call.ret = call.arg
    /\ lastw.bufsz > 0
    /\ lastw.nok >= 2
    /\ Len(storage) >= 2
    /\ rev > 0

\* ceil(n / c) for n >= 0, c >= 1
CeilDiv(n, c) == (n + c - 1) \div c

\* the free space of the chunk a do_storage_write call writes to: that of the
\* tail, or of a new chunk when the queue is empty or the tail is sealed
TailFree ==
    IF storage = <<>> \/ Sealed(storage[Len(storage)])
    THEN chunksize
    ELSE chunksize - storage[Len(storage)].offw

\* C20 (Spec): with each write() storing at least one byte or failing, a
\* do_storage_write call on bufsz >= 1 bytes that does not abort returns n,
\* 1 <= n <= bufsz, where n is bufsz after ENOSPC and otherwise at most the
\* free space of the tail chunk it writes to; and a write_storage call that
\* does not abort ends with p - buf = bufsz exactly, after at most
\* ceil(bufsz / chunksize) + 1 do_storage_write calls and as many new chunks
\* at most.
C20_AppendTerminates ==
    [][(pc = "input" /\ lastw'.bufsz > 0) =>
        LET bufsz == lastw'.bufsz
            buf == SubSeq(appended', Len(appended) + 1, Len(appended'))
        IN /\ \A r \in do_storage_write(Th, buf) :
                  r.errno # "EIO" =>
                      /\ 1 <= r.ret
                      /\ r.ret <= bufsz
                      /\ r.errno = "ENOSPC" => r.ret = bufsz
                      /\ r.errno = "OK" => r.ret <= TailFree
           /\ lastw'.errno # "EIO" =>
                  /\ lastw'.p = bufsz
                  /\ 1 <= lastw'.calls
                  /\ lastw'.calls <= CeilDiv(bufsz, chunksize) + 1
                  /\ made' - made <= CeilDiv(bufsz, chunksize) + 1
                  /\ made' - made <= lastw'.calls
    ]_vars

\* an append that began in a partly filled tail chunk took
\* ceil(bufsz / chunksize) + 1 do_storage_write calls, the most there can be,
\* with a short write() among them, and allocated a chunk
C20_Witness ==
    /\ pc = "reverse"
    /\ lastw.errno = "OK"
    /\ lastw.bufsz > 0
    /\ lastw.calls = CeilDiv(lastw.bufsz, chunksize) + 1
    /\ lastw.nok > lastw.calls
    /\ Len(storage) >= 2

====
